---- MODULE Spec2Model ----
(***************************************************************************)
(* Conversion dispatch and request lifecycle of the QuarksivoF converter   *)
(* API: the per-IP rate limiter, the image and document dispatch handlers, *)
(* the conversion registries, the multipart request parser and the         *)
(* response builder.                                                       *)
(***************************************************************************)
EXTENDS Integers, Sequences, FiniteSets, TLC

VARIABLES
    ipLimits,   \* the Map ipLimits: client IP -> [count, lastReset]
    now,        \* the value Date.now() returns
    inflight,   \* the POST handlers suspended at an await, per slot
    response,   \* the response most recently returned by a handler
    hist,       \* history: per IP, the calls of checkRateLimit in its window
    nRequests,  \* history: the single requests that have arrived so far
    incoming,   \* a request as it reaches a handler: its headers and body
    examined    \* what the handler's first steps make of the incoming request

vars == <<ipLimits, now, inflight, response, hist, nRequests, incoming,
          examined>>

\* the variables of the request under examination
requestVars == <<incoming, examined>>

----------------------------------------------------------------------------
(* Program constants.                                                      *)

REQUESTS_PER_DAY == 200

DAY_IN_MS == 24 * 60 * 60 * 1000

----------------------------------------------------------------------------
(* Bounds of the model.                                                    *)

\* calls of one IP beyond its quota that are followed within one window
MaxOver == 2

\* days the clock runs over
MaxDays == 1

\* single requests that arrive in a run, bursts aside
MaxRequests == 3

\* the keys checkRateLimit is called with: an address, and "unknown"
IPs == {"203.0.113.7", "unknown"}

\* the client of the limiter-only specification
LimiterIPs == {"203.0.113.7"}

\* the instants at which something happens: around every day boundary
ClockValues ==
    {t \in UNION {{k * DAY_IN_MS - 1, k * DAY_IN_MS, k * DAY_IN_MS + 1} :
                    k \in 0..MaxDays} : t >= 0}

\* the starts of the days
DayStarts == {k * DAY_IN_MS : k \in 0..MaxDays}

\* the handlers that may be suspended at an await at the same time
Slots == {1, 2}

----------------------------------------------------------------------------
(* The rate limiter.                                                       *)

\* a value of rateLimitResult.resetTime when the field is not set
NoResetTime == -1

\* ipLimits.has(ip)
HasRecord(limits, ip) == ip \in DOMAIN limits

SetRecord_Only(limits, ip, rec) == (ip :> rec)

SetRecord_All(limits, ip, rec) == [k \in DOMAIN limits \cup {ip} |-> rec]

\* ipLimits.set(ip, rec)
SetRecord(limits, ip, rec) == (ip :> rec) @@ limits

WindowExpired_Strict(ipData, t) == t - ipData.lastReset > DAY_IN_MS

\* now - ipData.lastReset >= DAY_IN_MS
WindowExpired(ipData, t) == t - ipData.lastReset >= DAY_IN_MS

QuotaReached_Strict(ipData) == ipData.count > REQUESTS_PER_DAY

\* ipData.count >= REQUESTS_PER_DAY
QuotaReached(ipData) == ipData.count >= REQUESTS_PER_DAY

NewRecord_Zero(t) == [count |-> 0, lastReset |-> t]

\* { count: 1, lastReset: now }
NewRecord(t) == [count |-> 1, lastReset |-> t]

Incremented_Lost(ipData) == ipData

\* ipData.count++
Incremented(ipData) == [ipData EXCEPT !.count = @ + 1]

\* new Date(ipData.lastReset + DAY_IN_MS).toISOString(): the instant, to the
\* millisecond, in UTC; one string per instant, so the instant stands for it
ResetTimeOf(ipData) == ipData.lastReset + DAY_IN_MS

\* checkRateLimit(ip) at Date.now() = t: the map it leaves and what it returns
Refused_Extends(limits, ip, t) ==
    SetRecord(limits, ip, [limits[ip] EXCEPT !.lastReset = t])

\* the map after the rejecting branch, which returns without a set
Refused(limits, ip, t) == limits

checkRateLimit(limits, ip, t) ==
    IF ~HasRecord(limits, ip)
    THEN [limits |-> SetRecord(limits, ip, NewRecord(t)),
          result |-> [allowed |-> TRUE, remaining |-> REQUESTS_PER_DAY - 1,
                      resetTime |-> NoResetTime]]
    ELSE LET ipData == limits[ip] IN
         IF WindowExpired(ipData, t)
         THEN [limits |-> SetRecord(limits, ip, NewRecord(t)),
               result |-> [allowed |-> TRUE, remaining |-> REQUESTS_PER_DAY - 1,
                           resetTime |-> NoResetTime]]
         ELSE IF QuotaReached(ipData)
         THEN [limits |-> Refused(limits, ip, t),
               result |-> [allowed |-> FALSE, remaining |-> 0,
                           resetTime |-> ResetTimeOf(ipData)]]
         ELSE LET inc == Incremented(ipData) IN
              [limits |-> SetRecord(limits, ip, inc),
               result |-> [allowed |-> TRUE,
                           remaining |-> REQUESTS_PER_DAY - inc.count,
                           resetTime |-> NoResetTime]]

----------------------------------------------------------------------------
(* History of the limiter's calls, kept beside the program's state: per IP *)
(* the 24h window that its first request opened, the calls made in it and  *)
(* how many of them were allowed.                                          *)

NoWindow ==
    [start |-> -1, calls |-> 0, allowed |-> 0, prevOver |-> FALSE,
     status |-> 0,
     result |-> [allowed |-> TRUE, remaining |-> -1, resetTime |-> -1]]

\* the history after a call of checkRateLimit by ip at t with the given
\* result: start, calls and allowed describe the window the call falls in,
\* prevOver says that the window before it saw calls beyond the quota, and
\* result is what the last call returned
Recorded(h, ip, t, result) ==
    LET w == h[ip]
        a == IF result.allowed THEN 1 ELSE 0
    IN  IF w.start < 0 \/ t - w.start >= DAY_IN_MS
        THEN [h EXCEPT ![ip] =
                [start |-> t, calls |-> 1, allowed |-> a,
                 prevOver |-> w.calls > REQUESTS_PER_DAY, status |-> 0,
                 result |-> result]]
        ELSE [h EXCEPT ![ip] =
                [start |-> w.start, calls |-> w.calls + 1,
                 allowed |-> w.allowed + a, prevOver |-> w.prevOver,
                 status |-> w.status, result |-> result]]

\* the history after such a call made by rate-limit-status: status counts the
\* calls of the window that this route made
RecordedStatus(h, ip, t, result) ==
    [Recorded(h, ip, t, result) EXCEPT ![ip].status = @ + 1]

\* the model follows at most MaxOver calls of an IP beyond its quota
MayCall(ip, t) ==
    \/ hist[ip].start < 0
    \/ t - hist[ip].start >= DAY_IN_MS
    \/ hist[ip].calls < REQUESTS_PER_DAY + MaxOver

----------------------------------------------------------------------------
(* The response builder.  A response is [status, headers, jsonBody]; the   *)
(* headers and the JSON body map each name to the text of its value.  The  *)
(* messages are the source's, written without diacritics.                  *)

NoBody == <<>>

NoHttp == [status |-> 0, headers |-> <<>>, jsonBody |-> NoBody]

\* Number.prototype.toString and the number's JSON text: the decimal digits
NumText(n) == ToString(n)

\* Date.prototype.toISOString of an instant given in milliseconds: one text
\* per millisecond instant
IsoText(ms) == "iso:" \o ToString(ms)

CORS_HEADERS_NoOrigin ==
    ("Access-Control-Allow-Methods" :> "POST, OPTIONS") @@
    ("Access-Control-Allow-Headers" :> "Content-Type")

CORS_HEADERS ==
    ("Access-Control-Allow-Origin" :> "*") @@
    ("Access-Control-Allow-Methods" :> "POST, OPTIONS") @@
    ("Access-Control-Allow-Headers" :> "Content-Type")

createErrorResponse_Generic(status, message, code) ==
    [status   |-> status,
     headers  |-> ("Content-Type" :> "application/json") @@ CORS_HEADERS,
     jsonBody |-> ("success" :> "false") @@ ("error" :> "Error") @@
                  ("code" :> code)]

\* createErrorResponse(status, message, code): it has three parameters and
\* reads nothing else of its arguments
createErrorResponse(status, message, code) ==
    [status   |-> status,
     headers  |-> ("Content-Type" :> "application/json") @@ CORS_HEADERS,
     jsonBody |-> ("success" :> "false") @@ ("error" :> message) @@
                  ("code" :> code)]

\* createCorsResponse()
createCorsResponse ==
    [status   |-> 200,
     headers  |-> CORS_HEADERS @@ ("Access-Control-Max-Age" :> "3600"),
     jsonBody |-> NoBody]

\* createHealthResponse(serviceName, version) at Date t
createHealthResponse(serviceName, version, t) ==
    [status   |-> 200,
     headers  |-> ("Content-Type" :> "application/json") @@ CORS_HEADERS,
     jsonBody |-> ("status" :> "healthy") @@ ("timestamp" :> IsoText(t)) @@
                  ("service" :> serviceName) @@ ("version" :> version)]

----------------------------------------------------------------------------
(* What a handler returned, with the history of the request it answered.   *)

NoResult == [allowed |-> TRUE, remaining |-> -1, resetTime |-> NoResetTime]

NoOutcome ==
    [kind |-> "none", success |-> FALSE, buffer |-> "undefined",
     metadata |-> "undefined", message |-> ""]

NoResponse ==
    [handler |-> "none", ip |-> "", conversionType |-> "", http |-> NoHttp,
     rl |-> NoResult, invoked |-> {}, outcome |-> NoOutcome,
     exhausted |-> FALSE, parsed |-> FALSE]

\* the response of one request: handler, client, path segment, the HTTP
\* response, the limiter's answer at its start, the components it invoked,
\* what the processor resolved with, whether the client's quota was used up
\* when it arrived, and whether its body was parsed without error
Returned(handler, ip, conversionType, http, rl, invoked, outcome, exhausted,
         parsed) ==
    [handler |-> handler, ip |-> ip, conversionType |-> conversionType,
     http |-> http, rl |-> rl, invoked |-> invoked, outcome |-> outcome,
     exhausted |-> exhausted, parsed |-> parsed]

\* by the history h, the client ip has had REQUESTS_PER_DAY requests allowed
\* in the window that t falls in
QuotaUsedUpIn(h, ip, t) ==
    /\ h[ip].start >= 0
    /\ t - h[ip].start < DAY_IN_MS
    /\ h[ip].allowed >= REQUESTS_PER_DAY

QuotaUsedUp(ip, t) == QuotaUsedUpIn(hist, ip, t)

----------------------------------------------------------------------------
(* The conversion registries.  CONVERSION_MODULES and                      *)
(* DOCUMENT_CONVERSION_MODULES are object literals, so a lookup by         *)
(* obj[key] or by key in obj also finds what Object.prototype holds.       *)

NoProcessor == "undefined"

Entry(processor, outputFormat) ==
    [kind |-> "entry", processor |-> processor, outputFormat |-> outputFormat]

\* HeicToJpg.js exports processHeicToPng and no processHeicToJpg, so the
\* processor of 'heic-to-jpg' is undefined
CONVERSION_MODULES ==
    ("jpg-to-png"  :> Entry("processJpgToPng", "png")) @@
    ("png-to-jpg"  :> Entry("processPngToJpg", "jpg")) @@
    ("webp-to-jpg" :> Entry("processWebpToJpg", "jpg")) @@
    ("jpg-to-webp" :> Entry("processJpgToWebp", "webp")) @@
    ("png-to-webp" :> Entry("processPngToWebp", "webp")) @@
    ("webp-to-png" :> Entry("processWebpToPng", "png")) @@
    ("avif-to-jpg" :> Entry("processAvifToJpg", "jpg")) @@
    ("jpg-to-avif" :> Entry("processJpgToAvif", "avif")) @@
    ("png-to-avif" :> Entry("processPngToAvif", "avif")) @@
    ("heic-to-jpg" :> Entry(NoProcessor, "jpg")) @@
    ("heic-to-png" :> Entry("processHeicToPng", "png")) @@
    ("svg-to-webp" :> Entry("processSvgToWebp", "webp")) @@
    ("svg-to-png"  :> Entry("processSvgToPng", "png")) @@
    ("svg-to-jpg"  :> Entry("processSvgToJpg", "jpg")) @@
    ("svg-to-jpeg" :> Entry("processSvgToJpeg", "jpeg")) @@
    ("gif-to-mp4"  :> Entry("processGifToMp4", "mp4"))

DOCUMENT_CONVERSION_MODULES ==
    ("pdf-to-docx" :> Entry("processPdfToDocx", "docx")) @@
    ("word-to-pdf" :> Entry("processWordToPdf", "pdf")) @@
    ("docx-to-pdf" :> Entry("processDocxToPdf", "pdf"))

\* the property names every object literal inherits from Object.prototype
ObjectPrototypeKeys ==
    {"constructor", "toString", "toLocaleString", "valueOf",
     "hasOwnProperty", "isPrototypeOf", "propertyIsEnumerable", "__proto__"}

\* a function or object inherited from Object.prototype: truthy, and it has
\* no property named processor
Inherited == [kind |-> "inherited", processor |-> NoProcessor, outputFormat |-> ""]

Null == [kind |-> "null", processor |-> NoProcessor, outputFormat |-> ""]

\* modules[conversionType]
PropertyOf(modules, conversionType) ==
    IF conversionType \in DOMAIN modules THEN modules[conversionType]
    ELSE IF conversionType \in ObjectPrototypeKeys THEN Inherited
    ELSE Null

\* conversionType in modules
In(modules, conversionType) ==
    conversionType \in (DOMAIN modules) \cup ObjectPrototypeKeys

\* getConversionConfig: CONVERSION_MODULES[conversionType] || null
getConversionConfig(conversionType) ==
    PropertyOf(CONVERSION_MODULES, conversionType)

\* isConversionSupported: conversionType in CONVERSION_MODULES
isConversionSupported(conversionType) ==
    In(CONVERSION_MODULES, conversionType)

\* getDocumentConversionConfig
getDocumentConversionConfig(conversionType) ==
    PropertyOf(DOCUMENT_CONVERSION_MODULES, conversionType)

\* isDocumentConversionSupported
isDocumentConversionSupported(conversionType) ==
    In(DOCUMENT_CONVERSION_MODULES, conversionType)

\* the path segments requests arrive with: registered keys of either
\* registry, an unregistered pair, an inherited property name and a key in
\* another case
ConversionTypes ==
    {"jpg-to-png", "avif-to-jpg", "heic-to-jpg", "word-to-pdf", "bmp-to-avif",
     "toString", "JPG-TO-PNG"}

----------------------------------------------------------------------------
(* The converters, at their boundary: what a processor resolves with, or   *)
(* that it throws.  A buffer is undefined, empty or holds data; metadata   *)
(* is undefined, holds original, final and processing ("full"), or only    *)
(* the sizes of original and final ("sizes").                              *)

Throws(message) ==
    [kind |-> "throws", success |-> FALSE, buffer |-> "undefined",
     metadata |-> "undefined", message |-> message]

Resolves(success, buffer, metadata) ==
    [kind |-> "resolves", success |-> success, buffer |-> buffer,
     metadata |-> metadata, message |-> ""]

\* the result shapes of the converter contract, for the converter modules
\* that the registries require and the sources do not hold
ContractOutcomes ==
    {Throws("Error en proceso")} \cup
    {Resolves(success, buffer, metadata) :
        success \in BOOLEAN, buffer \in {"undefined", "empty", "data"},
        metadata \in {"undefined", "full"}}

\* validateJpgImage(imageBuffer) is false: the Error thrown in the try block
\* of processJpgToPng is caught by its catch and thrown again, wrapped
InvalidJpg ==
    Throws("Error en proceso JPG->PNG: " \o
           "El archivo no es una imagen JPG/JPEG valida")

\* processJpgToPng: it returns success true with the buffer sharp encoded
\* and all three metadata sections, or it throws: the file is no JPG, or
\* sharp fails
processJpgToPng ==
    {InvalidJpg,
     Throws("Error en proceso JPG->PNG: Error convirtiendo JPG a PNG: sharp"),
     Resolves(TRUE, "data", "full")}

\* processWordToPdf: one version of the module returns only the two sizes,
\* the others all three sections
processWordToPdf ==
    {Throws("Error en proceso Word->PDF"), Resolves(TRUE, "data", "sizes"),
     Resolves(TRUE, "data", "full")}

\* processPdfToDocx
processPdfToDocx ==
    {Throws("Error en proceso PDF->DOCX"), Resolves(TRUE, "data", "full")}

\* await conversionConfig.processor(buffer, options, conversionOptions)
ProcessorOutcomes(processor) ==
    CASE processor = "processJpgToPng"  -> processJpgToPng
      [] processor = "processWordToPdf" -> processWordToPdf
      [] processor = "processPdfToDocx" -> processPdfToDocx
      [] OTHER -> ContractOutcomes

\* the sections a metadata object holds
Sections(metadata) ==
    CASE metadata = "full"  -> {"original", "final", "processing"}
      [] metadata = "sizes" -> {"original", "final"}
      [] OTHER -> {}

\* !processingResult.buffer: undefined is falsy, every Buffer object is
\* truthy, the empty one too
Falsy(buffer) == buffer = "undefined"

\* imageBuffer.toString('base64')
Base64(buffer) == IF buffer = "empty" THEN "" ELSE "QmFzZTY0"

\* createSuccessResponse(imageBuffer, metadata, processingTime, format):
\* reading metadata.final, metadata.original or metadata.processing.x of a
\* missing section throws a TypeError
createSuccessResponse(imageBuffer, metadata, format) ==
    IF "final" \notin Sections(metadata)
    THEN [threw |-> TRUE, http |-> NoHttp, message |->
            "Cannot read properties of undefined (reading 'final')"]
    ELSE IF "original" \notin Sections(metadata)
    THEN [threw |-> TRUE, http |-> NoHttp, message |->
            "Cannot read properties of undefined (reading 'format')"]
    ELSE IF "processing" \notin Sections(metadata)
    THEN [threw |-> TRUE, http |-> NoHttp, message |->
            "Cannot read properties of undefined (reading 'appliedOptions')"]
    ELSE [threw |-> FALSE, message |-> "", http |->
            [status   |-> 200,
             headers  |-> ("Content-Type" :> "application/json") @@
                          CORS_HEADERS,
             jsonBody |->
                ("success" :> "true") @@
                ("message" :> "Conversion completada exitosamente") @@
                ("image" :> "data:image/" \o format \o ";base64," \o
                            Base64(imageBuffer)) @@
                ("metadata.width" :> "final.width") @@
                ("metadata.height" :> "final.height") @@
                ("metadata.format" :> format) @@
                ("metadata.originalFormat" :> "original.format") @@
                ("originalSize" :> "original.size") @@
                ("processedSize" :> "final.size") @@
                ("processingTime" :> "ms") @@
                ("appliedOptions" :> "processing.appliedOptions") @@
                ("compressionRatio" :> "processing.compressionRatio")]]

----------------------------------------------------------------------------
(* The request parser.  A request body is [contentType, bodyReadOk,        *)
(* decodeOk, parts]: the content-type header ("" when absent), whether     *)
(* request.arrayBuffer() resolves, whether parseMultipart.parse returns,   *)
(* and the parts it returns, each [name, data]; headersOk says whether     *)
(* reading the headers returns.                                            *)

MultipartTypes ==
    {"multipart/form-data", "multipart/form-data; boundary=",
     "multipart/form-data; boundary=X"}

\* contentType.split('boundary=')[1]
BoundaryOf(contentType) ==
    CASE contentType = "multipart/form-data; boundary=X" -> "X"
      [] contentType = "multipart/form-data; boundary="  -> ""
      [] OTHER -> "undefined"

\* JSON.parse(text) followed by Array.isArray: the array parsed, or that
\* the text is no JSON, or JSON of another type
JsonArrayOf(text) ==
    CASE text = "[\"optimize-size\"]" ->
            [threw |-> FALSE, isArray |-> TRUE, value |-> <<"optimize-size">>]
      [] text = "[]" ->
            [threw |-> FALSE, isArray |-> TRUE, value |-> <<>>]
      [] text = "{\"quality\":90}" ->
            [threw |-> FALSE, isArray |-> FALSE, value |-> <<>>]
      [] OTHER ->
            [threw |-> TRUE, isArray |-> FALSE, value |-> <<>>]

OptionsOf_Raw(text) == <<text>>

\* the options a part named options leaves
OptionsOf(text) ==
    LET parsed == JsonArrayOf(text) IN
    IF parsed.threw \/ ~parsed.isArray THEN <<>> ELSE parsed.value

RECURSIVE ScanParts(_, _, _, _)
\* for (const part of parts): the last part named file and the last part
\* named options win
ScanParts(parts, i, imageBuffer, options) ==
    IF i > Len(parts) THEN [imageBuffer |-> imageBuffer, options |-> options]
    ELSE LET part == parts[i] IN
         IF part.name = "file"
         THEN ScanParts(parts, i + 1, part.data, options)
         ELSE IF part.name = "options"
         THEN ScanParts(parts, i + 1, imageBuffer, OptionsOf(part.data))
         ELSE ScanParts(parts, i + 1, imageBuffer, options)

ParseError(status, message, code) ==
    [ok |-> FALSE, status |-> status, message |-> message, code |-> code,
     imageBuffer |-> "null", options |-> <<>>]

Caught_Rethrown(message) == ParseError(0, message, "")

\* catch (error): the exception with the given message, raised in the try
\* block, returned as an error value
Caught(message) ==
    ParseError(500, "Error parseando request: " \o message, "PARSING_ERROR")

NoFile_NullOnly(imageBuffer) == imageBuffer = "null"

\* !imageBuffer || imageBuffer.length === 0
NoFile(imageBuffer) == imageBuffer \in {"null", "empty"}

\* parseImageRequest(request)
parseImageRequest(request) ==
    IF ~request.headersOk
    THEN Caught("headers")
    ELSE IF request.contentType \notin MultipartTypes
    THEN ParseError(400, "Content-Type debe ser multipart/form-data",
                    "INVALID_CONTENT_TYPE")
    ELSE IF ~request.bodyReadOk
    THEN Caught("body")
    ELSE IF BoundaryOf(request.contentType) \in {"undefined", ""}
    THEN ParseError(400, "Boundary no encontrado en Content-Type",
                    "MISSING_BOUNDARY")
    ELSE IF ~request.decodeOk
    THEN Caught("multipart")
    ELSE LET scanned == ScanParts(request.parts, 1, "null", <<>>) IN
         IF NoFile(scanned.imageBuffer)
         THEN ParseError(400, "No se encontro archivo de imagen",
                         "NO_FILE_FOUND")
         ELSE [ok |-> TRUE, status |-> 200, message |-> "", code |-> "",
               imageBuffer |-> scanned.imageBuffer,
               options |-> scanned.options]

FilePart == [name |-> "file", data |-> "data"]

OptionsPart(text) == [name |-> "options", data |-> text]

Request(contentType, bodyReadOk, decodeOk, parts) ==
    [headersOk |-> TRUE, contentType |-> contentType,
     bodyReadOk |-> bodyReadOk, decodeOk |-> decodeOk, parts |-> parts]

\* the request bodies that arrive
Bodies ==
    {Request("multipart/form-data; boundary=X", TRUE, TRUE, parts) :
        parts \in {<<FilePart>>,
                   <<FilePart, OptionsPart("[\"optimize-size\"]")>>,
                   <<OptionsPart("not json"), FilePart>>,
                   <<FilePart, OptionsPart("{\"quality\":90}")>>,
                   <<OptionsPart("[\"optimize-size\"]")>>,
                   <<[name |-> "file", data |-> "empty"]>>,
                   <<[name |-> "other", data |-> "data"]>>,
                   <<>>}}
    \cup {Request(contentType, bodyReadOk, TRUE, <<FilePart>>) :
            contentType \in {"", "application/json", "multipart/form-data",
                             "multipart/form-data; boundary="},
            bodyReadOk \in BOOLEAN}
    \cup {Request("multipart/form-data; boundary=X", FALSE, TRUE, <<FilePart>>),
          Request("multipart/form-data; boundary=X", TRUE, FALSE, <<FilePart>>)}

----------------------------------------------------------------------------
(* The client address.  request.headers is a Headers object: the parser    *)
(* reads it with request.headers.get(name).  It keeps its entries inside,  *)
(* so it has no property named after a header, and the request object has  *)
(* no property ip unless the host sets one.                                *)

\* request.headers.get(name)
HeadersGet(headers, name) ==
    IF name \in DOMAIN headers THEN headers[name] ELSE "null"

\* request.headers[name]
HeadersProperty(headers, name) == "undefined"

\* the value is truthy: neither undefined nor null nor the empty string
Truthy(value) == value \notin {"undefined", "null", ""}

\* text.split(',')[0]
FirstEntry(text) ==
    LET commas == {i \in 1..Len(text) : SubSeq(text, i, i) = ","} IN
    IF commas = {} THEN text
    ELSE SubSeq(text, 1, (CHOOSE i \in commas : \A j \in commas : i <= j) - 1)

\* text.trim(), for texts whose white space is the space character
Trim(text) ==
    LET inked == {i \in 1..Len(text) : SubSeq(text, i, i) # " "} IN
    IF inked = {} THEN ""
    ELSE SubSeq(text,
                CHOOSE i \in inked : \A j \in inked : i <= j,
                CHOOSE i \in inked : \A j \in inked : i >= j)

\* request.headers['x-forwarded-for']?.split(',')[0]?.trim()
FirstForwardedFor(request) ==
    LET value == HeadersProperty(request.headers, "x-forwarded-for") IN
    IF value \in {"undefined", "null"} THEN "undefined"
    ELSE Trim(FirstEntry(value))

\* const clientIP = ... || ... || ... || request.ip || 'unknown'
clientIPOf(request) ==
    IF Truthy(FirstForwardedFor(request)) THEN FirstForwardedFor(request)
    ELSE IF Truthy(HeadersProperty(request.headers, "x-real-ip"))
    THEN HeadersProperty(request.headers, "x-real-ip")
    ELSE IF Truthy(HeadersProperty(request.headers, "cf-connecting-ip"))
    THEN HeadersProperty(request.headers, "cf-connecting-ip")
    ELSE IF Truthy(request.ip) THEN request.ip
    ELSE "unknown"

\* the header entries of a request: each of the three headers is absent or
\* has one of the given values
HeaderEntries(forwardedFor, realIp, connectingIp) ==
    [name \in {n \in {"x-forwarded-for", "x-real-ip", "cf-connecting-ip"} :
                 \/ n = "x-forwarded-for" /\ forwardedFor # "absent"
                 \/ n = "x-real-ip" /\ realIp # "absent"
                 \/ n = "cf-connecting-ip" /\ connectingIp # "absent"}
        |-> CASE name = "x-forwarded-for" -> forwardedFor
              [] name = "x-real-ip" -> realIp
              [] OTHER -> connectingIp]

\* the headers requests arrive with
ArrivingHeaders ==
    {HeaderEntries(forwardedFor, realIp, connectingIp) :
        forwardedFor \in {"absent", "", "203.0.113.7",
                          "203.0.113.7, 10.0.0.1", " 198.51.100.9 ,10.0.0.1"},
        realIp \in {"absent", "198.51.100.9"},
        connectingIp \in {"absent", "192.0.2.44"}}

\* a request as the host hands it to a handler
Arrived(headers, body) ==
    [kind |-> "request", headers |-> headers, ip |-> "undefined",
     body |-> body]

\* the keys the handlers derive for the requests that arrive
ClientKeys ==
    {clientIPOf(Arrived(headers, NoBody)) : headers \in ArrivingHeaders}

----------------------------------------------------------------------------
(* GET rate-limit-status: the handler has no await and runs in one step.   *)

RateLimitStatusResponse(clientIP, rateLimitResult) ==
    [status   |-> 200,
     headers  |-> ("Content-Type" :> "application/json") @@
                  ("Access-Control-Allow-Origin" :> "*"),
     jsonBody |-> ("ip" :> clientIP) @@
                  ("remaining" :> NumText(rateLimitResult.remaining)) @@
                  ("limit" :> NumText(REQUESTS_PER_DAY)) @@
                  ("resetTime" :>
                      IF rateLimitResult.resetTime = NoResetTime THEN "null"
                      ELSE IsoText(rateLimitResult.resetTime))]

StatusCall_Peek(clientIP) ==
    /\ response = NoResponse
    /\ MayCall(clientIP, now)
    /\ LET r == checkRateLimit(ipLimits, clientIP, now) IN
        /\ ipLimits' = ipLimits
        /\ hist' = RecordedStatus(hist, clientIP, now, r.result)
        /\ response' = Returned("status", clientIP, "",
                                RateLimitStatusResponse(clientIP, r.result),
                                r.result, {"limiter"}, NoOutcome,
                                QuotaUsedUp(clientIP, now), FALSE)
    /\ UNCHANGED <<now, inflight>>
    /\ UNCHANGED requestVars

\* RateLimitStatus: checkRateLimit(clientIP), and the answer in the body
StatusCall(clientIP) ==
    /\ response = NoResponse
    /\ MayCall(clientIP, now)
    /\ LET r == checkRateLimit(ipLimits, clientIP, now) IN
        /\ ipLimits' = r.limits
        /\ hist' = RecordedStatus(hist, clientIP, now, r.result)
        /\ response' = Returned("status", clientIP, "",
                                RateLimitStatusResponse(clientIP, r.result),
                                r.result, {"limiter"}, NoOutcome,
                                QuotaUsedUp(clientIP, now), FALSE)
    /\ UNCHANGED <<now, inflight>>
    /\ UNCHANGED requestVars

----------------------------------------------------------------------------
(* The suspended handlers.  A POST handler is suspended at its two awaits: *)
(* of parseImageRequest (pc = "parse") and of the processor (pc =          *)
(* "process"); between them it runs without interruption.                  *)

Idle == [pc |-> "idle"]

Suspended(pc, handler, ip, conversionType, rl, exhausted) ==
    [pc |-> pc, handler |-> handler, ip |-> ip,
     conversionType |-> conversionType, rl |-> rl, exhausted |-> exhausted]

\* the lowest free slot takes the next request
FreeSlot(s) ==
    /\ inflight[s].pc = "idle"
    /\ \A r \in Slots : r < s => inflight[r].pc # "idle"

\* the handler in slot s returns http
Settled_Refund(limits, ip, http) ==
    IF http.status # 200 /\ HasRecord(limits, ip) /\ limits[ip].count > 0
    THEN SetRecord(limits, ip, [limits[ip] EXCEPT !.count = @ - 1])
    ELSE limits

\* the map when a handler returns: no return statement and no catch block
\* touches ipLimits, whatever the response
Settled(limits, ip, http) == limits

Return(s, http, invoked, outcome, parsed) ==
    LET q == inflight[s] IN
    /\ response' = Returned(q.handler, q.ip, q.conversionType, http, q.rl,
                            invoked, outcome, q.exhausted, parsed)
    /\ inflight' = [inflight EXCEPT ![s] = Idle]
    /\ ipLimits' = Settled(ipLimits, q.ip, http)

----------------------------------------------------------------------------
(* POST image/{conversionType}: ImageConverterMain.                        *)

\* new Date(resetTime).toLocaleString('es-ES'): the instant to the second
LocaleText(ms) == "es-ES:" \o ToString(ms \div 1000)

Rejected_Never(rateLimitResult) == FALSE

\* !rateLimitResult.allowed
Rejected(rateLimitResult) == ~rateLimitResult.allowed

\* the 429 response.  The handler calls createErrorResponse with a fourth
\* argument {resetTime, maxRequests, remaining}; createErrorResponse has
\* three parameters, so the object is built and dropped
RateLimitExceeded(rateLimitResult) ==
    createErrorResponse(
        429,
        "Limite de peticiones excedido. Has alcanzado el maximo de " \o
            NumText(REQUESTS_PER_DAY) \o
            " conversiones por dia. Tu limite se restablecera el " \o
            LocaleText(rateLimitResult.resetTime) \o ".",
        "RATE_LIMIT_EXCEEDED")

\* from the entry of the handler to the await of parseImageRequest
ImageStart(s, clientIP, conversionType) ==
    /\ response = NoResponse
    /\ FreeSlot(s)
    /\ nRequests < MaxRequests
    /\ MayCall(clientIP, now)
    /\ LET r == checkRateLimit(ipLimits, clientIP, now)
           rateLimitResult == r.result
           exhausted == QuotaUsedUp(clientIP, now)
       IN
        /\ ipLimits' = r.limits
        /\ hist' = Recorded(hist, clientIP, now, rateLimitResult)
        /\ IF Rejected(rateLimitResult)
           THEN /\ response' = Returned("image", clientIP, conversionType,
                                        RateLimitExceeded(rateLimitResult),
                                        rateLimitResult, {"limiter"},
                                        NoOutcome, exhausted, FALSE)
                /\ UNCHANGED inflight
           ELSE /\ inflight' = [inflight EXCEPT ![s] =
                                  Suspended("parse", "image", clientIP,
                                            conversionType, rateLimitResult,
                                            exhausted)]
                /\ UNCHANGED response
    /\ nRequests' = nRequests + 1
    /\ UNCHANGED now
    /\ UNCHANGED requestVars

\* conversionConfig.processor is a function
Callable(conversionConfig) == conversionConfig.processor # NoProcessor

ImageParsed_RegistryFirst(s, request) ==
    LET q == inflight[s]
        parseResult == parseImageRequest(request)
        conversionConfig == getConversionConfig(q.conversionType)
    IN
    /\ response = NoResponse
    /\ q.pc = "parse"
    /\ q.handler = "image"
    /\ IF ~isConversionSupported(q.conversionType)
       THEN Return(s, createErrorResponse(
                        400,
                        "Tipo de conversion no soportado: " \o q.conversionType,
                        "UNSUPPORTED_CONVERSION"),
                   {"limiter", "parser", "registry"}, NoOutcome,
                   parseResult.ok)
       ELSE IF ~parseResult.ok
       THEN Return(s, createErrorResponse(parseResult.status,
                                          parseResult.message,
                                          parseResult.code),
                   {"limiter", "parser", "registry"}, NoOutcome, FALSE)
       ELSE IF ~Callable(conversionConfig)
       THEN Return(s, createErrorResponse(
                        500,
                        "Error interno del servidor: " \o
                            "conversionConfig.processor is not a function",
                        "INTERNAL_ERROR"),
                   {"limiter", "parser", "registry"}, NoOutcome, TRUE)
       ELSE /\ inflight' = [inflight EXCEPT ![s].pc = "process"]
            /\ UNCHANGED <<response, ipLimits>>
    /\ UNCHANGED <<now, hist, nRequests>>
    /\ UNCHANGED requestVars

\* from the parser's answer to the await of the processor
ImageParsed(s, request) ==
    LET q == inflight[s]
        parseResult == parseImageRequest(request)
        conversionConfig == getConversionConfig(q.conversionType)
    IN
    /\ response = NoResponse
    /\ q.pc = "parse"
    /\ q.handler = "image"
    /\ IF ~parseResult.ok
       THEN Return(s, createErrorResponse(parseResult.status,
                                          parseResult.message,
                                          parseResult.code),
                   {"limiter", "parser"}, NoOutcome, FALSE)
       ELSE IF ~isConversionSupported(q.conversionType)
       THEN Return(s, createErrorResponse(
                        400,
                        "Tipo de conversion no soportado: " \o q.conversionType,
                        "UNSUPPORTED_CONVERSION"),
                   {"limiter", "parser", "registry"}, NoOutcome, TRUE)
       ELSE IF ~Callable(conversionConfig)
       THEN Return(s, createErrorResponse(
                        500,
                        "Error interno del servidor: " \o
                            "conversionConfig.processor is not a function",
                        "INTERNAL_ERROR"),
                   {"limiter", "parser", "registry"}, NoOutcome, TRUE)
       ELSE /\ inflight' = [inflight EXCEPT ![s].pc = "process"]
            /\ UNCHANGED <<response, ipLimits>>
    /\ UNCHANGED <<now, hist, nRequests>>
    /\ UNCHANGED requestVars

WithRateLimitHeaders_None(http, rateLimitResult) == http

\* the headers of the success response, with the limiter's answer added
WithRateLimitHeaders(http, rateLimitResult) ==
    [http EXCEPT !.headers =
        ("X-RateLimit-Remaining" :> NumText(rateLimitResult.remaining)) @@
        ("X-RateLimit-Limit" :> NumText(REQUESTS_PER_DAY)) @@ @]

\* from the processor's answer to the return of the handler
ImageProcessed(s, processingResult) ==
    LET q == inflight[s]
        conversionConfig == getConversionConfig(q.conversionType)
        built == createSuccessResponse(processingResult.buffer,
                                       processingResult.metadata,
                                       conversionConfig.outputFormat)
        invoked == {"limiter", "parser", "registry", "processor"}
    IN
    /\ response = NoResponse
    /\ q.pc = "process"
    /\ q.handler = "image"
    /\ processingResult \in ProcessorOutcomes(conversionConfig.processor)
    /\ IF processingResult.kind = "throws"
       THEN Return(s, createErrorResponse(
                        500,
                        "Error interno del servidor: " \o
                            processingResult.message,
                        "INTERNAL_ERROR"),
                   invoked, processingResult, TRUE)
       ELSE IF ~processingResult.success \/ Falsy(processingResult.buffer)
       THEN Return(s, createErrorResponse(
                        500, "Error en el procesamiento de la imagen",
                        "PROCESSING_ERROR"),
                   invoked, processingResult, TRUE)
       ELSE IF built.threw
       THEN Return(s, createErrorResponse(
                        500,
                        "Error interno del servidor: " \o built.message,
                        "INTERNAL_ERROR"),
                   invoked, processingResult, TRUE)
       ELSE Return(s, WithRateLimitHeaders(built.http, q.rl),
                   invoked, processingResult, TRUE)
    /\ UNCHANGED <<now, hist, nRequests>>
    /\ UNCHANGED requestVars

----------------------------------------------------------------------------
(* POST convert/{conversionType}: DocumentConverterMain.  The handler does *)
(* not read the client's address and does not call checkRateLimit.         *)

\* from the entry of the handler to the await of parseImageRequest
DocumentStart(s, clientIP, conversionType) ==
    /\ response = NoResponse
    /\ FreeSlot(s)
    /\ nRequests < MaxRequests
    /\ inflight' = [inflight EXCEPT ![s] =
                      Suspended("parse", "document", clientIP, conversionType,
                                NoResult, QuotaUsedUp(clientIP, now))]
    /\ nRequests' = nRequests + 1
    /\ UNCHANGED <<ipLimits, now, response, hist>>
    /\ UNCHANGED requestVars

\* from the parser's answer to the await of the processor
DocumentParsed(s, request) ==
    LET q == inflight[s]
        parseResult == parseImageRequest(request)
        conversionConfig == getDocumentConversionConfig(q.conversionType)
    IN
    /\ response = NoResponse
    /\ q.pc = "parse"
    /\ q.handler = "document"
    /\ IF ~parseResult.ok
       THEN Return(s, createErrorResponse(parseResult.status,
                                          parseResult.message,
                                          parseResult.code),
                   {"parser"}, NoOutcome, FALSE)
       ELSE IF ~isDocumentConversionSupported(q.conversionType)
       THEN Return(s, createErrorResponse(
                        400,
                        "Tipo de conversion de documento no soportado: " \o
                            q.conversionType,
                        "UNSUPPORTED_DOCUMENT_CONVERSION"),
                   {"parser", "registry"}, NoOutcome, TRUE)
       ELSE IF ~Callable(conversionConfig)
       THEN Return(s, createErrorResponse(
                        500,
                        "Error interno del servidor en conversion de documento: "
                            \o "conversionConfig.processor is not a function",
                        "DOCUMENT_INTERNAL_ERROR"),
                   {"parser", "registry"}, NoOutcome, TRUE)
       ELSE /\ inflight' = [inflight EXCEPT ![s].pc = "process"]
            /\ UNCHANGED <<response, ipLimits>>
    /\ UNCHANGED <<now, hist, nRequests>>
    /\ UNCHANGED requestVars

\* from the processor's answer to the return of the handler
DocumentProcessed(s, processingResult) ==
    LET q == inflight[s]
        conversionConfig == getDocumentConversionConfig(q.conversionType)
        built == createSuccessResponse(processingResult.buffer,
                                       processingResult.metadata,
                                       conversionConfig.outputFormat)
        invoked == {"parser", "registry", "processor"}
    IN
    /\ response = NoResponse
    /\ q.pc = "process"
    /\ q.handler = "document"
    /\ processingResult \in ProcessorOutcomes(conversionConfig.processor)
    /\ IF processingResult.kind = "throws"
       THEN Return(s, createErrorResponse(
                        500,
                        "Error interno del servidor en conversion de documento: "
                            \o processingResult.message,
                        "DOCUMENT_INTERNAL_ERROR"),
                   invoked, processingResult, TRUE)
       ELSE IF ~processingResult.success \/ Falsy(processingResult.buffer)
       THEN Return(s, createErrorResponse(
                        500, "Error en el procesamiento del documento",
                        "DOCUMENT_PROCESSING_ERROR"),
                   invoked, processingResult, TRUE)
       ELSE IF built.threw
       THEN Return(s, createErrorResponse(
                        500,
                        "Error interno del servidor en conversion de documento: "
                            \o built.message,
                        "DOCUMENT_INTERNAL_ERROR"),
                   invoked, processingResult, TRUE)
       ELSE Return(s, built.http, invoked, processingResult, TRUE)
    /\ UNCHANGED <<now, hist, nRequests>>
    /\ UNCHANGED requestVars

----------------------------------------------------------------------------
(* The preflight and health routes: handlers without await or state.       *)

\* a handler that only builds its response
Answer(handler, http) ==
    /\ response = NoResponse
    /\ response' = Returned(handler, "", "", http, NoResult, {}, NoOutcome,
                            FALSE, FALSE)
    /\ UNCHANGED <<ipLimits, now, inflight, hist, nRequests>>
    /\ UNCHANGED requestVars

\* OPTIONS convert/{conversionType}, registered by PngToJpg.js
ImageConverterCors == Answer("image-cors", createCorsResponse)

\* GET health
ImageConverterHealth ==
    Answer("image-health",
           createHealthResponse("Universal Image Converter", "2.0.0", now))

\* OPTIONS convert/{conversionType}, registered by TheDocuments.js
DocumentConverterCors == Answer("document-cors", createCorsResponse)

\* GET health-docs
DocumentConverterHealth ==
    Answer("document-health",
           createHealthResponse("Universal Document Converter", "1.0.0", now))

----------------------------------------------------------------------------
(* The routes the function app registers with app.http, and the requests   *)
(* that match none of them.                                                *)

Registration(handler, method, route) ==
    [handler |-> handler, method |-> method, route |-> route]

Registrations ==
    {Registration("image", "POST", "image/{conversionType}"),
     Registration("image-cors", "OPTIONS", "convert/{conversionType}"),
     Registration("image-health", "GET", "health"),
     Registration("status", "GET", "rate-limit-status"),
     Registration("document", "POST", "convert/{conversionType}"),
     Registration("document-cors", "OPTIONS", "convert/{conversionType}"),
     Registration("document-health", "GET", "health-docs")}

Methods == {"GET", "POST", "OPTIONS"}

RouteTemplates == {r.route : r \in Registrations}

\* the routes on which a conversion POST is served
ConversionRoutes ==
    {r.route : r \in {x \in Registrations :
                          x.method = "POST" /\ x.handler \in {"image", "document"}}}

\* the handlers registered for the method on the route
Matching(method, route) ==
    {r.handler : r \in {x \in Registrations :
                            x.method = method /\ x.route = route}}

\* the tag of the answer the Functions host gives by itself
HostAnswered(method, route) == "host: " \o method \o " " \o route

\* who answers the method on the route
Dispatch(method, route) ==
    IF Matching(method, route) = {} THEN {HostAnswered(method, route)}
    ELSE Matching(method, route)

\* the host's answer to a request no registered function matches: not found,
\* or method not allowed; no handler of the repository runs, so nothing adds
\* the CORS headers
HostStatuses == {404, 405}

HostResponse(status) ==
    [status |-> status, headers |-> <<>>, jsonBody |-> NoBody]

\* a request to a conversion route with a method that no app.http
\* registration has for it
Unrouted ==
    \E method \in Methods, route \in ConversionRoutes, status \in HostStatuses :
        /\ Matching(method, route) = {}
        /\ Answer(HostAnswered(method, route), HostResponse(status))

----------------------------------------------------------------------------
(* The clock.                                                              *)

\* the clock moves on to one of the instants
TickTo(instants) ==
    /\ response = NoResponse
    /\ \E t \in instants : t > now /\ now' = t
    /\ UNCHANGED <<ipLimits, inflight, response, hist, nRequests>>
    /\ UNCHANGED requestVars

Tick == TickTo(ClockValues)

\* a day passes
DayTick == TickTo(DayStarts)

----------------------------------------------------------------------------
(* The host takes the response a handler returned and sends it; the model  *)
(* lets it do so before anything else happens.                             *)

Deliver ==
    /\ response # NoResponse
    /\ response' = NoResponse
    /\ UNCHANGED <<ipLimits, now, inflight, hist, nRequests>>
    /\ UNCHANGED requestVars

----------------------------------------------------------------------------
(* The state after the modules are loaded.                                 *)

\* no request is under examination
NoRequest == [kind |-> "none"]

NotExamined == [kind |-> "none"]

Init ==
    /\ ipLimits = <<>>
    /\ now = 0
    /\ inflight = [s \in Slots |-> Idle]
    /\ response = NoResponse
    /\ hist = [ip \in IPs |-> NoWindow]
    /\ nRequests = 0
    /\ incoming = NoRequest
    /\ examined = NotExamined

----------------------------------------------------------------------------
(* The limiter alone: checkRateLimit called through rate-limit-status with *)
(* one key, one call after the other, from the empty map, and with another *)
(* key in between.                                                         *)

LimiterStatus ==
    \E ip \in LimiterIPs : StatusCall(ip) /\ UNCHANGED nRequests

\* the other clients call in between, MaxRequests times in all
LimiterOther ==
    /\ nRequests < MaxRequests
    /\ \E ip \in IPs \ LimiterIPs : StatusCall(ip)
    /\ nRequests' = nRequests + 1

NextLimiter == LimiterStatus \/ LimiterOther \/ Tick \/ Deliver

SpecLimiter == Init /\ [][NextLimiter]_vars

----------------------------------------------------------------------------
(* The whole service: both dispatch handlers with requests in flight, the  *)
(* status route and the clock.  A client may open its window with a burst  *)
(* of BurstSize status calls in a row, which is BurstSize steps of         *)
(* StatusCall with nothing between them, taken as one step.                *)

BurstSize == REQUESTS_PER_DAY - 2

RECURSIVE Polled(_, _, _, _, _)
\* the map and the history after n calls of checkRateLimit by ip at t, one
\* after the other: the first half of the calls, then the rest
Polled(limits, h, ip, t, n) ==
    IF n = 0 THEN [limits |-> limits, hist |-> h]
    ELSE IF n = 1
    THEN CHOOSE after \in
             {[limits |-> r.limits, hist |-> RecordedStatus(h, ip, t, r.result)] :
                  r \in {checkRateLimit(limits, ip, t)}} : TRUE
    ELSE CHOOSE after \in
             {Polled(half.limits, half.hist, ip, t, n - (n \div 2)) :
                  half \in {Polled(limits, h, ip, t, n \div 2)}} : TRUE

Burst ==
    \E clientIP \in ClientKeys :
        /\ response = NoResponse
        /\ ~HasRecord(ipLimits, clientIP)
        /\ LET before == Polled(ipLimits, hist, clientIP, now, BurstSize - 1)
               r == checkRateLimit(before.limits, clientIP, now)
           IN
            /\ ipLimits' = r.limits
            /\ hist' = RecordedStatus(before.hist, clientIP, now, r.result)
            /\ response' = Returned("status", clientIP, "",
                                    RateLimitStatusResponse(clientIP, r.result),
                                    r.result, {"limiter"}, NoOutcome,
                                    QuotaUsedUpIn(before.hist, clientIP, now),
                                    FALSE)
        /\ UNCHANGED <<now, inflight, nRequests>>
        /\ UNCHANGED requestVars

RateLimitStatus ==
    /\ nRequests < MaxRequests
    /\ \E clientIP \in ClientKeys : StatusCall(clientIP)
    /\ nRequests' = nRequests + 1

ImageConverterMain ==
    \E s \in Slots :
        \/ \E clientIP \in ClientKeys, conversionType \in ConversionTypes :
              ImageStart(s, clientIP, conversionType)
        \/ \E request \in Bodies : ImageParsed(s, request)
        \/ \E processingResult \in ContractOutcomes \cup processJpgToPng :
              ImageProcessed(s, processingResult)

DocumentConverterMain ==
    \E s \in Slots :
        \/ \E clientIP \in ClientKeys, conversionType \in ConversionTypes :
              DocumentStart(s, clientIP, conversionType)
        \/ \E request \in Bodies : DocumentParsed(s, request)
        \/ \E processingResult \in
                ContractOutcomes \cup processWordToPdf \cup processPdfToDocx :
              DocumentProcessed(s, processingResult)

Next ==
    \/ DayTick
    \/ Deliver
    \/ Burst
    \/ RateLimitStatus
    \/ ImageConverterMain
    \/ DocumentConverterMain
    \/ ImageConverterCors
    \/ ImageConverterHealth
    \/ DocumentConverterCors
    \/ DocumentConverterHealth
    \/ Unrouted

Spec == Init /\ [][Next]_vars

----------------------------------------------------------------------------
(* Properties of the rate limiter, under SpecLimiter.                      *)

\* C1: within the 24h window that an IP's first request opened, the Nth call
\* of checkRateLimit (1 <= N <= 200) returns allowed with remaining = 200 - N,
\* and the 201st and every later call returns not allowed with remaining = 0
C1_NthCall ==
    \A ip \in IPs :
        LET w == hist[ip] IN
        w.calls >= 1 =>
            IF w.calls <= REQUESTS_PER_DAY
            THEN /\ w.result.allowed
                 /\ w.result.remaining = REQUESTS_PER_DAY - w.calls
            ELSE /\ ~w.result.allowed
                 /\ w.result.remaining = 0

\* the 201st call of a window has been made and was rejected
C1_Witness ==
    \E ip \in IPs :
        /\ hist[ip].calls = REQUESTS_PER_DAY + 1
        /\ ~hist[ip].result.allowed
        /\ hist[ip].result.remaining = 0

\* C2: a call of checkRateLimit by an IP whose record is 24h old or older
\* leaves the record {count: 1, lastReset: now} and returns allowed with
\* remaining = 199, whatever the count was
C2_Reset ==
    [][\A ip \in IPs :
          (/\ hist'[ip] # hist[ip]
           /\ HasRecord(ipLimits, ip)
           /\ now - ipLimits[ip].lastReset >= DAY_IN_MS)
          => /\ ipLimits'[ip] = [count |-> 1, lastReset |-> now]
             /\ hist'[ip].result.allowed
             /\ hist'[ip].result.remaining = REQUESTS_PER_DAY - 1]_vars

\* an IP that was rejected in its window has called again 24h or more after
\* the window's start, and its record is new
C2_Witness ==
    \E ip \in IPs :
        /\ hist[ip].prevOver
        /\ hist[ip].calls = 1
        /\ hist[ip].start = now
        /\ HasRecord(ipLimits, ip)
        /\ ipLimits[ip] = [count |-> 1, lastReset |-> now]
        /\ hist[ip].result.remaining = REQUESTS_PER_DAY - 1

\* C3: every record of the map has 1 <= count <= 200
C3_CountRange ==
    \A ip \in DOMAIN ipLimits :
        /\ 1 <= ipLimits[ip].count
        /\ ipLimits[ip].count <= REQUESTS_PER_DAY

\* two IPs have records, and one of them has been rejected with its count
\* at the quota
C3_Witness ==
    /\ Cardinality(DOMAIN ipLimits) = 2
    /\ \E ip \in DOMAIN ipLimits :
          /\ ipLimits[ip].count = REQUESTS_PER_DAY
          /\ hist[ip].calls > REQUESTS_PER_DAY
          /\ ~hist[ip].result.allowed

----------------------------------------------------------------------------
(* Properties of the dispatch handlers, under Spec.                        *)

\* a request of handler h by ip is suspended at an await
InFlight(h, ip) ==
    \E s \in Slots :
        /\ inflight[s].pc # "idle"
        /\ inflight[s].handler = h
        /\ inflight[s].ip = ip

\* the image handler has just rejected a request of an IP while another
\* request of the same IP is suspended at an await
RejectedBesideInFlight ==
    /\ response.handler = "image"
    /\ ~response.rl.allowed
    /\ InFlight("image", response.ip)

\* C4, amended: checkRateLimit has no await between its check of the counter
\* and its increment, so requests in flight at the same time do not
\* interleave inside it: within one 24h window at most 200 calls of an IP
\* are allowed, and the record's count is the number of calls allowed
C4_HardQuota ==
    \A ip \in IPs :
        /\ hist[ip].allowed <= REQUESTS_PER_DAY
        /\ (HasRecord(ipLimits, ip) /\ ipLimits[ip].lastReset = hist[ip].start)
              => ipLimits[ip].count = hist[ip].allowed

\* with a request of the IP in flight, a further one was rejected after
\* exactly 200 had been allowed
C4_Witness ==
    /\ RejectedBesideInFlight
    /\ hist[response.ip].allowed = REQUESTS_PER_DAY
    /\ hist[response.ip].calls > REQUESTS_PER_DAY

\* C4 as stated: requests of one IP in flight at the same time get past the
\* quota, so that when the calls of a window exceed 200 with requests of the
\* IP in flight, more than 200 of them were allowed
C4_SoftQuota ==
    RejectedBesideInFlight => hist[response.ip].allowed > REQUESTS_PER_DAY

\* the components of a request that come after the limiter
AfterLimiter == {"parser", "registry", "processor"}

\* C5: a request that the limiter rejects ends in the image handler with 429
\* RATE_LIMIT_EXCEEDED, and neither the parser nor the registry nor a
\* processor is invoked for it
C5_RejectedEnds429 ==
    /\ (response.handler = "image" /\ ~response.rl.allowed)
          => /\ response.http.status = 429
             /\ response.http.jsonBody["code"] = "RATE_LIMIT_EXCEEDED"
             /\ response.invoked \cap AfterLimiter = {}
    /\ \A s \in Slots :
          (inflight[s].pc # "idle" /\ inflight[s].handler = "image")
            => inflight[s].rl.allowed

\* a request has been rejected with 429
C5_Witness ==
    /\ response.handler = "image"
    /\ ~response.rl.allowed
    /\ response.http.status = 429
    /\ response.invoked = {"limiter"}

\* C6: the body of every 429 RATE_LIMIT_EXCEEDED response carries resetTime
\* and remaining beside success, error and code
C6_BodyCarriesReset ==
    response.http.status = 429
      => {"success", "error", "code", "resetTime", "remaining"}
            \subseteq DOMAIN response.http.jsonBody

\* C7: no processor is invoked for a POST request, to either handler, of an
\* IP that has had 200 requests allowed in the current window
C7_LimiterFirst ==
    "processor" \in response.invoked => ~response.exhausted

\* C8: an allowed and parsed request whose conversionType is no registered
\* key ends with 400 UNSUPPORTED_CONVERSION, no processor invoked, and the
\* lookup of that type returns null and reports it unsupported
C8_UnregisteredIs400 ==
    (/\ response.handler = "image"
     /\ response.rl.allowed
     /\ response.parsed
     /\ response.conversionType \notin DOMAIN CONVERSION_MODULES)
      => /\ getConversionConfig(response.conversionType) = Null
         /\ ~isConversionSupported(response.conversionType)
         /\ response.http.status = 400
         /\ response.http.jsonBody["code"] = "UNSUPPORTED_CONVERSION"
         /\ "processor" \notin response.invoked

\* C9: when the processor resolves with success false, without a buffer or
\* with a buffer of length 0, the handler never ends with a 200 success
\* response
C9_FailedIsNot200 ==
    (/\ response.outcome.kind = "resolves"
     /\ \/ ~response.outcome.success
        \/ response.outcome.buffer \in {"undefined", "empty"})
      => response.http.status # 200

\* C10: when a processor of the document registry resolves with success
\* true and a buffer that holds data, the handler ends with 200, whatever
\* sections the metadata has
C10_SuccessIs200 ==
    (/\ response.handler = "document"
     /\ response.outcome.kind = "resolves"
     /\ response.outcome.success
     /\ response.outcome.buffer = "data")
      => response.http.status = 200

\* the two rate-limit headers
RateLimitHeaders == {"X-RateLimit-Remaining", "X-RateLimit-Limit"}

\* C11: every 200 response of the image handler carries X-RateLimit-Limit =
\* 200 and X-RateLimit-Remaining = the remaining that the limiter returned at
\* the start of the same request, and no response with another status
\* carries either header
C11_RateLimitHeaders ==
    /\ (response.handler = "image" /\ response.http.status = 200)
          => /\ RateLimitHeaders \subseteq DOMAIN response.http.headers
             /\ response.http.headers["X-RateLimit-Limit"] = "200"
             /\ response.http.headers["X-RateLimit-Remaining"] =
                    NumText(response.rl.remaining)
    /\ response.http.status # 200
          => RateLimitHeaders \cap DOMAIN response.http.headers = {}

\* a 200 response of the image handler whose request was followed by other
\* calls of the limiter: the header holds the remaining of the request's own
\* check, which is no longer the remaining of the record
C11_Witness ==
    /\ response.handler = "image"
    /\ response.http.status = 200
    /\ HasRecord(ipLimits, response.ip)
    /\ response.rl.remaining # REQUESTS_PER_DAY - ipLimits[response.ip].count
    /\ response.http.headers["X-RateLimit-Remaining"] =
          NumText(response.rl.remaining)

\* part occurs in text
Contains(text, part) ==
    \E i \in 1..(Len(text) - Len(part) + 1) :
        SubSeq(text, i, i + Len(part) - 1) = part

\* C12: when the processor throws, the image handler ends with 500
\* INTERNAL_ERROR and the error text of the body contains the exception's
\* message
C12_ThrowIs500 ==
    (response.handler = "image" /\ response.outcome.kind = "throws")
      => /\ response.http.status = 500
         /\ response.http.jsonBody["code"] = "INTERNAL_ERROR"
         /\ Contains(response.http.jsonBody["error"], response.outcome.message)

\* the JPG->PNG processor threw because sharp failed, and the handler
\* answered 500 with the message
C12_Witness ==
    /\ response.handler = "image"
    /\ response.conversionType = "jpg-to-png"
    /\ response.outcome.kind = "throws"
    /\ response.outcome # InvalidJpg
    /\ response.http.status = 500
    /\ Contains(response.http.jsonBody["error"], "sharp")

\* C13: when the uploaded file fails the converter's format validation, the
\* response has status 400
C13_InvalidFormatIs400 ==
    (response.handler = "image" /\ response.outcome = InvalidJpg)
      => response.http.status = 400

\* C18: every response of every route carries Access-Control-Allow-Origin:
\* *, and every response to a conversion POST has a JSON body with success,
\* and with error and code when success is false, or with the result when
\* success is true
C18_CorsEverywhere ==
    response.handler \in {r.handler : r \in Registrations}
      => /\ "Access-Control-Allow-Origin" \in DOMAIN response.http.headers
         /\ response.http.headers["Access-Control-Allow-Origin"] = "*"
         /\ response.handler \in {"image", "document"}
              => LET jsonBody == response.http.jsonBody IN
                 /\ "success" \in DOMAIN jsonBody
                 /\ jsonBody["success"] \in {"true", "false"}
                 /\ jsonBody["success"] = "false"
                      => {"error", "code"} \subseteq DOMAIN jsonBody
                 /\ jsonBody["success"] = "true"
                      => {"image", "metadata.format"} \subseteq DOMAIN jsonBody

\* a conversion ended with 500 INTERNAL_ERROR after its processor threw, and
\* the response carries the header
C18_Witness ==
    /\ response.handler \in {"image", "document"}
    /\ response.outcome.kind = "throws"
    /\ response.http.status = 500
    /\ response.http.headers["Access-Control-Allow-Origin"] = "*"
    /\ response.http.jsonBody["success"] = "false"

----------------------------------------------------------------------------
(* One request under examination: the handler's derivation of the client   *)
(* address and the parser, applied to requests of every shape with up to   *)
(* MaxParts parts.                                                         *)

MaxParts == 2

PartKinds ==
    {FilePart, [name |-> "file", data |-> "empty"],
     OptionsPart("[\"optimize-size\"]"), OptionsPart("not json"),
     OptionsPart("{\"quality\":90}"), [name |-> "other", data |-> "data"]}

PartLists == UNION {[1..k -> PartKinds] : k \in 0..MaxParts}

ContentTypes ==
    {"", "application/json", "multipart/form-data",
     "multipart/form-data; boundary=", "multipart/form-data; boundary=X"}

RequestShapes ==
    {[headersOk |-> headersOk, contentType |-> contentType,
      bodyReadOk |-> bodyReadOk, decodeOk |-> decodeOk, parts |-> parts] :
        headersOk \in BOOLEAN, contentType \in ContentTypes,
        bodyReadOk \in BOOLEAN, decodeOk \in BOOLEAN, parts \in PartLists}

InitRequest ==
    /\ ipLimits = <<>>
    /\ now = 0
    /\ inflight = [s \in Slots |-> Idle]
    /\ response = NoResponse
    /\ hist = [ip \in IPs |-> NoWindow]
    /\ nRequests = 0
    /\ incoming \in {Arrived(headers, body) :
                        headers \in ArrivingHeaders, body \in RequestShapes}
    /\ examined = NotExamined

\* the handler derives the client address, the parser parses the body
Examine ==
    /\ incoming # NoRequest
    /\ examined = NotExamined
    /\ examined' = [kind |-> "examined",
                    clientIP |-> clientIPOf(incoming),
                    parseResult |-> parseImageRequest(incoming.body)]
    /\ UNCHANGED <<ipLimits, now, inflight, response, hist, nRequests,
                   incoming>>

NextRequest == Examine

SpecRequest == InitRequest /\ [][NextRequest]_vars

----------------------------------------------------------------------------
(* Properties of the parser and of the client address, under SpecRequest.  *)

\* the incoming request has been examined
Examined == examined # NotExamined

\* the parser gets as far as the loop over the parts of b
Decoded(b) ==
    /\ b.headersOk
    /\ b.contentType = "multipart/form-data; boundary=X"
    /\ b.bodyReadOk
    /\ b.decodeOk

\* the positions of the parts of the given name
Named(parts, name) == {i \in 1..Len(parts) : parts[i].name = name}

\* the last of a non-empty set of positions
Last(positions) == CHOOSE i \in positions : \A j \in positions : i >= j

\* C14: a multipart/form-data request without a boundary= parameter yields
\* MISSING_BOUNDARY with status 400, also when reading the body fails
C14_BoundaryBeforeBody ==
    LET b == incoming.body IN
        (/\ Examined
         /\ b.headersOk
         /\ b.contentType = "multipart/form-data")
          => /\ examined.parseResult.status = 400
             /\ examined.parseResult.code = "MISSING_BOUNDARY"

\* C15: a decoded body without a part named file, or whose file parts have
\* zero length, yields NO_FILE_FOUND with status 400 and no imageBuffer,
\* whatever other parts it has
C15_NoFileFound ==
    LET b == incoming.body IN
        (/\ Examined
         /\ Decoded(b)
         /\ \A i \in Named(b.parts, "file") : b.parts[i].data = "empty")
          => /\ ~examined.parseResult.ok
             /\ examined.parseResult.status = 400
             /\ examined.parseResult.code = "NO_FILE_FOUND"
             /\ examined.parseResult.imageBuffer = "null"

\* a body of one empty file part and one options part was parsed
C15_Witness ==
    /\ examined # NotExamined
    /\ Decoded(incoming.body)
    /\ incoming.body.parts =
          <<OptionsPart("[\"optimize-size\"]"),
            [name |-> "file", data |-> "empty"]>>
    /\ examined.parseResult.code = "NO_FILE_FOUND"

\* the texts of options parts that are no JSON array
MalformedOptions == {"not json", "{\"quality\":90}"}

\* C16: for a decoded body whose file part is not empty and whose options
\* part is no JSON, or JSON of a value that is no array, the parser returns
\* no error and options = []
C16_LenientOptions ==
    LET b == incoming.body IN
        (/\ Examined
         /\ Decoded(b)
         /\ Named(b.parts, "file") # {}
         /\ b.parts[Last(Named(b.parts, "file"))].data # "empty"
         /\ Named(b.parts, "options") # {}
         /\ b.parts[Last(Named(b.parts, "options"))].data \in MalformedOptions)
          => /\ examined.parseResult.ok
             /\ examined.parseResult.imageBuffer = "data"
             /\ examined.parseResult.options = <<>>

\* a body with options "not json" before its file was parsed without error
C16_Witness ==
    /\ examined # NotExamined
    /\ Decoded(incoming.body)
    /\ incoming.body.parts = <<OptionsPart("not json"), FilePart>>
    /\ examined.parseResult.ok
    /\ examined.parseResult.options = <<>>

\* an exception is raised while the parser runs on b: reading the headers,
\* reading the body, or decoding the multipart parts
Raises(b) ==
    \/ ~b.headersOk
    \/ /\ b.headersOk
       /\ b.contentType \in MultipartTypes
       /\ \/ ~b.bodyReadOk
          \/ /\ b.contentType = "multipart/form-data; boundary=X"
             /\ ~b.decodeOk

\* C17: an exception raised while parseImageRequest runs is returned as the
\* error value with status 500 and code PARSING_ERROR; the parser returns a
\* value for every request
C17_ParserCatches ==
    LET b == incoming.body IN
        Examined
          => /\ examined.parseResult.status \in {200, 400, 500}
             /\ Raises(b)
                  => /\ ~examined.parseResult.ok
                     /\ examined.parseResult.status = 500
                     /\ examined.parseResult.code = "PARSING_ERROR"

\* the multipart decoder threw and the parser returned PARSING_ERROR
C17_Witness ==
    /\ examined # NotExamined
    /\ incoming.body.headersOk
    /\ incoming.body.bodyReadOk
    /\ ~incoming.body.decodeOk
    /\ examined.parseResult.code = "PARSING_ERROR"
    /\ Contains(examined.parseResult.message, "multipart")

\* C19: the rate-limit key of a request is the first comma-separated entry
\* of its X-Forwarded-For header, trimmed, when the header has one
C19_ForwardedForFirst ==
    (/\ Examined
     /\ "x-forwarded-for" \in DOMAIN incoming.headers
     /\ Truthy(Trim(FirstEntry(incoming.headers["x-forwarded-for"]))))
      => examined.clientIP =
            Trim(FirstEntry(incoming.headers["x-forwarded-for"]))

----------------------------------------------------------------------------
(* The registries, as the handlers look conversions up in them.            *)

\* the part of key after its first "-to-"
Suffix(key) ==
    LET at == {i \in 1..(Len(key) - 3) : SubSeq(key, i, i + 3) = "-to-"} IN
    IF at = {} THEN ""
    ELSE SubSeq(key, (CHOOSE i \in at : \A j \in at : i <= j) + 4, Len(key))

\* the entry has a callable processor and the output format its key names
Complete(conversionConfig, key) ==
    /\ conversionConfig # Null
    /\ Callable(conversionConfig)
    /\ conversionConfig.outputFormat = Suffix(key)

\* C20: for every key of the image registry and of the document registry
\* that a handler has looked up, the lookup returned a non-null entry with a
\* callable processor, whose outputFormat is the part of the key after
\* "-to-"
C20_RegistryComplete ==
    "registry" \in response.invoked
      => /\ (/\ response.handler = "image"
             /\ response.conversionType \in DOMAIN CONVERSION_MODULES)
              => Complete(getConversionConfig(response.conversionType),
                          response.conversionType)
         /\ (/\ response.handler = "document"
             /\ response.conversionType \in DOMAIN DOCUMENT_CONVERSION_MODULES)
              => Complete(getDocumentConversionConfig(response.conversionType),
                          response.conversionType)

----------------------------------------------------------------------------
(* Preflight.                                                              *)

\* C21: an OPTIONS request to any route on which a conversion POST is served
\* is answered with status 200, no body, Access-Control-Max-Age 3600 and an
\* Access-Control-Allow-Methods header containing POST
C21_PreflightOnPostRoutes ==
    \A route \in ConversionRoutes :
        response.handler \in Dispatch("OPTIONS", route)
          => /\ response.http.status = 200
             /\ response.http.jsonBody = NoBody
             /\ "Access-Control-Max-Age" \in DOMAIN response.http.headers
             /\ response.http.headers["Access-Control-Max-Age"] = "3600"
             /\ "Access-Control-Allow-Methods" \in DOMAIN response.http.headers
             /\ Contains(response.http.headers["Access-Control-Allow-Methods"],
                         "POST")

----------------------------------------------------------------------------
(* The processors, one call examined: the input buffer by its first bytes  *)
(* and its length, the options, and what sharp, mammoth, pdfkit and the    *)
(* shared option processing answer.                                        *)

Buffer(signature, length) == [signature |-> signature, length |-> length]

\* validateJpgImage(imageBuffer)
validateJpgImage(imageBuffer) ==
    /\ imageBuffer.length >= 10
    /\ imageBuffer.signature = "FFD8FF"

\* validateWordDocument(documentBuffer)
validateWordDocument(documentBuffer) ==
    /\ documentBuffer.length >= 100
    /\ documentBuffer.signature \in {"504b0304", "504b0506", "d0cf11e0a1b11ae1"}

\* what an awaited library call answers: it rejects, or it resolves with a
\* buffer of some length
Rejects == [ok |-> FALSE, length |-> 0]

Yields(length) == [ok |-> TRUE, length |-> length]

\* the buffer a converter is given: the input, or the one the shared
\* processing made of it
Original(imageBuffer) == [from |-> "original", length |-> imageBuffer.length]

Processed(shared) == [from |-> "processed", length |-> shared.length]

SharedFailure_Rethrown(imageBuffer) ==
    [threw |-> TRUE, buffer |-> Original(imageBuffer)]

\* catch (sharedError): processedBuffer = imageBuffer
SharedFailure(imageBuffer) ==
    [threw |-> FALSE, buffer |-> Original(imageBuffer)]

\* processedBuffer after the block that applies the options
processImageWithOptions(imageBuffer, processingOptions, shared) ==
    IF Len(processingOptions) > 0
    THEN IF shared.ok
         THEN [threw |-> FALSE, buffer |-> Processed(shared)]
         ELSE SharedFailure(imageBuffer)
    ELSE [threw |-> FALSE, buffer |-> Original(imageBuffer)]

\* the metadata object with all three sections
FullMetadata(originalSize, finalSize, appliedOptions) ==
    [original   |-> [size |-> originalSize],
     final      |-> [size |-> finalSize],
     processing |-> [appliedOptions |-> appliedOptions,
                     sizeChange |-> finalSize - originalSize]]

\* the metadata object with the two sizes only
SizesMetadata(originalSize, finalSize) ==
    [original |-> [size |-> originalSize], final |-> [size |-> finalSize]]

\* processJpgToPng(imageBuffer, processingOptions, conversionParams)
processJpgToPngOf(call) ==
    LET originalSize == call.buffer.length
        processed == processImageWithOptions(call.buffer,
                                             call.processingOptions, call.shared)
    IN
    IF ~validateJpgImage(call.buffer) THEN InvalidJpg
    ELSE IF ~call.metadataOk
    THEN Throws("Error en proceso JPG->PNG: sharp metadata")
    ELSE IF processed.threw
    THEN Throws("Error en proceso JPG->PNG: shared processing")
    ELSE IF ~call.converted.ok
    THEN Throws("Error en proceso JPG->PNG: Error convirtiendo JPG a PNG: sharp")
    ELSE Resolves(TRUE,
                  [from |-> processed.buffer.from,
                   length |-> call.converted.length],
                  FullMetadata(originalSize, call.converted.length,
                               call.processingOptions))

\* processWordToPdf, the version that validates and reads the metadata with
\* mammoth, which may throw
processWordToPdfFull(call) ==
    IF ~validateWordDocument(call.buffer)
    THEN Throws("Error en proceso Word->PDF: " \o
                "El archivo no es un documento Word valido")
    ELSE IF ~call.metadataOk
    THEN Throws("Error en proceso Word->PDF: " \o
                "Error obteniendo metadata del documento")
    ELSE IF ~call.converted.ok
    THEN Throws("Error en proceso Word->PDF: Error convirtiendo DOCX a PDF")
    ELSE Resolves(TRUE,
                  [from |-> "original", length |-> call.converted.length],
                  FullMetadata(call.buffer.length, call.converted.length,
                               call.processingOptions))

\* processWordToPdf, the version without puppeteer: no validation, and a
\* metadata object with original.size and final.size only
processWordToPdfServer(call) ==
    IF ~call.converted.ok
    THEN Throws("Error en proceso Word->PDF: Error convirtiendo DOCX a PDF")
    ELSE Resolves(TRUE,
                  [from |-> "original", length |-> call.converted.length],
                  SizesMetadata(call.buffer.length, call.converted.length))

\* processWordToPdf, the version with safe defaults: getWordMetadata catches
\* its own errors
processWordToPdfSafe(call) ==
    IF ~validateWordDocument(call.buffer)
    THEN Throws("Error en proceso Word->PDF: " \o
                "El archivo no es un documento Word valido")
    ELSE IF ~call.converted.ok
    THEN Throws("Error en proceso Word->PDF: Error convirtiendo DOCX a PDF")
    ELSE Resolves(TRUE,
                  [from |-> "original", length |-> call.converted.length],
                  FullMetadata(call.buffer.length, call.converted.length,
                               call.processingOptions))

Processors ==
    {"processJpgToPng", "processWordToPdfFull", "processWordToPdfServer",
     "processWordToPdfSafe"}

\* the processor of the call, applied
Applied(call) ==
    CASE call.processor = "processJpgToPng"        -> processJpgToPngOf(call)
      [] call.processor = "processWordToPdfFull"   -> processWordToPdfFull(call)
      [] call.processor = "processWordToPdfServer" -> processWordToPdfServer(call)
      [] call.processor = "processWordToPdfSafe"   -> processWordToPdfSafe(call)

\* input buffers: empty, below and at the length validateJpgImage asks for,
\* at and above the length validateWordDocument asks for
InputBuffers ==
    {Buffer(signature, length) :
        signature \in {"FFD8FF", "504b0304", "89504E"},
        length \in {0, 9, 10, 100, 150}}

OptionLists ==
    {<<>>, <<"optimize-size">>, <<"optimize-size", "improve-quality">>}

Answers == {Rejects, Yields(60), Yields(150), Yields(200)}

\* sharp decodes JPG data only, and mammoth Word documents only
Readable(processor, buffer) ==
    IF processor = "processJpgToPng" THEN validateJpgImage(buffer)
    ELSE validateWordDocument(buffer)

Calls ==
    {call \in
        {[kind |-> "call", processor |-> processor, buffer |-> buffer,
          processingOptions |-> processingOptions, metadataOk |-> metadataOk,
          shared |-> shared, converted |-> converted] :
            processor \in Processors, buffer \in InputBuffers,
            processingOptions \in OptionLists, metadataOk \in BOOLEAN,
            shared \in {Rejects, Yields(100)}, converted \in Answers} :
        call.converted.ok => Readable(call.processor, call.buffer)}

InitProcessor ==
    /\ ipLimits = <<>>
    /\ now = 0
    /\ inflight = [s \in Slots |-> Idle]
    /\ response = NoResponse
    /\ hist = [ip \in IPs |-> NoWindow]
    /\ nRequests = 0
    /\ incoming \in Calls
    /\ examined = NotExamined

\* the processor is awaited
Run ==
    /\ examined = NotExamined
    /\ examined' = [kind |-> "ran", processingResult |-> Applied(incoming)]
    /\ UNCHANGED <<ipLimits, now, inflight, response, hist, nRequests, incoming>>

NextProcessor == Run

SpecProcessor == InitProcessor /\ [][NextProcessor]_vars

\* the call resolved with success true
Succeeded ==
    /\ examined # NotExamined
    /\ examined.processingResult.kind = "resolves"
    /\ examined.processingResult.success

\* C22: whenever a processor resolves with success true, its metadata holds
\* processing.sizeChange, equal to final.size - original.size, where
\* final.size is the length of the returned buffer and original.size the
\* length of the input buffer
C22_SizeChange ==
    Succeeded
      => LET metadata == examined.processingResult.metadata IN
         /\ "processing" \in DOMAIN metadata
         /\ metadata.processing.sizeChange
                = metadata.final.size - metadata.original.size
         /\ metadata.final.size = examined.processingResult.buffer.length
         /\ metadata.original.size = incoming.buffer.length

\* a call of processJpgToPng with options, on a JPG that sharp reads and
\* converts, in which the shared option processing throws
SharedStepFailed ==
    /\ examined # NotExamined
    /\ incoming.processor = "processJpgToPng"
    /\ Len(incoming.processingOptions) > 0
    /\ ~incoming.shared.ok
    /\ validateJpgImage(incoming.buffer)
    /\ incoming.metadataOk
    /\ incoming.converted.ok

\* C30: when options are supplied and the shared option processing throws,
\* processJpgToPng does not fail: it converts the original input buffer,
\* resolves with success true, and metadata.processing.appliedOptions lists
\* every requested option
C30_SharedFailureTolerated ==
    SharedStepFailed
      => LET processingResult == examined.processingResult IN
         /\ processingResult.kind = "resolves"
         /\ processingResult.success
         /\ processingResult.buffer.from = "original"
         /\ processingResult.metadata.processing.appliedOptions
                = incoming.processingOptions

\* two options were asked for, the shared processing threw, and the call
\* resolved with the conversion of the original buffer
C30_Witness ==
    /\ SharedStepFailed
    /\ Len(incoming.processingOptions) = 2
    /\ examined.processingResult.success
    /\ examined.processingResult.buffer.from = "original"
    /\ Len(examined.processingResult.metadata.processing.appliedOptions) = 2

----------------------------------------------------------------------------
(* The dispatch handlers of TheImage.js, which have no limiter: one        *)
(* request handled from its arrival to its response.                       *)

\* the registry the first handler of TheImage.js holds itself
TheImageModules ==
    ("jpg_to_png" :> Entry("processJpgToPng", "png")) @@
    ("png_to_jpg" :> Entry("processPngToJpg", "jpg"))

\* text.replace(a, b) for a string a of one character: the first occurrence
\* only
ReplaceFirst(text, a, b) ==
    LET at == {i \in 1..Len(text) : SubSeq(text, i, i) = a} IN
    IF at = {} THEN text
    ELSE LET first == CHOOSE i \in at : \A j \in at : i <= j IN
         SubSeq(text, 1, first - 1) \o b \o SubSeq(text, first + 1, Len(text))

\* const conversionKey = conversionType.replace('-', '_')
conversionKeyOf(conversionType) == ReplaceFirst(conversionType, "-", "_")

Variants == {"own-registry", "moduleLoader"}

\* the entry the handler works with
ConfigOf(variant, conversionType) ==
    IF variant = "own-registry"
    THEN PropertyOf(TheImageModules, conversionKeyOf(conversionType))
    ELSE getConversionConfig(conversionType)

\* whether the handler goes on to the processor
SupportedIn(variant, conversionType) ==
    IF variant = "own-registry"
    THEN ConfigOf(variant, conversionType) # Null
    ELSE isConversionSupported(conversionType)

\* the handler up to the processor: the response it returns before it, or
\* none
BeforeProcessor(variant, conversionType, request) ==
    LET parseResult == parseImageRequest(request) IN
    IF ~parseResult.ok
    THEN createErrorResponse(parseResult.status, parseResult.message,
                             parseResult.code)
    ELSE IF ~SupportedIn(variant, conversionType)
    THEN createErrorResponse(
            400, "Tipo de conversion no soportado: " \o conversionType,
            "UNSUPPORTED_CONVERSION")
    ELSE IF ~Callable(ConfigOf(variant, conversionType))
    THEN createErrorResponse(
            500, "Error interno del servidor: " \o
                 "conversionConfig.processor is not a function",
            "INTERNAL_ERROR")
    ELSE NoHttp

\* the handler from the processor's answer on
AfterProcessor(variant, conversionType, processingResult) ==
    LET built == createSuccessResponse(
                    processingResult.buffer, processingResult.metadata,
                    ConfigOf(variant, conversionType).outputFormat)
    IN
    IF processingResult.kind = "throws"
    THEN createErrorResponse(
            500, "Error interno del servidor: " \o processingResult.message,
            "INTERNAL_ERROR")
    ELSE IF ~processingResult.success \/ Falsy(processingResult.buffer)
    THEN createErrorResponse(500, "Error en el procesamiento de la imagen",
                             "PROCESSING_ERROR")
    ELSE IF built.threw
    THEN createErrorResponse(
            500, "Error interno del servidor: " \o built.message,
            "INTERNAL_ERROR")
    ELSE built.http

\* the path segments, with the registry's own spelling of a key
DispatchTypes == ConversionTypes \cup {"jpg_to_png", "png-to-jpg"}

InitDispatch ==
    /\ ipLimits = <<>>
    /\ now = 0
    /\ inflight = [s \in Slots |-> Idle]
    /\ response = NoResponse
    /\ hist = [ip \in IPs |-> NoWindow]
    /\ nRequests = 0
    /\ incoming \in {[kind |-> "post", variant |-> variant,
                      conversionType |-> conversionType, body |-> body] :
                        variant \in Variants, conversionType \in DispatchTypes,
                        body \in Bodies}
    /\ examined = NotExamined

\* the handler runs from the request to its response
Handled(http, processingResult) ==
    /\ examined' = [kind |-> "handled", http |-> http,
                    processingResult |-> processingResult]
    /\ UNCHANGED <<ipLimits, now, inflight, response, hist, nRequests, incoming>>

TheImageConverterMain ==
    /\ examined = NotExamined
    /\ LET before == BeforeProcessor(incoming.variant, incoming.conversionType,
                                     incoming.body)
           processor == ConfigOf(incoming.variant,
                                 incoming.conversionType).processor
       IN
       IF before # NoHttp THEN Handled(before, NoOutcome)
       ELSE \E processingResult \in ProcessorOutcomes(processor) :
                Handled(AfterProcessor(incoming.variant,
                                       incoming.conversionType,
                                       processingResult),
                        processingResult)

NextDispatch == TheImageConverterMain

SpecDispatch == InitDispatch /\ [][NextDispatch]_vars

\* C23: in every variant of the dispatch handler, a POST to jpg-to-png whose
\* body parses and whose file is a well-formed JPG (the processor, when it
\* is called, resolves with the PNG and its metadata) is not answered
\* UNSUPPORTED_CONVERSION: it is answered 200 with success true, an image
\* starting with data:image/png;base64, and the output format png
C23_JpgToPngIs200 ==
    (/\ examined # NotExamined
     /\ incoming.conversionType = "jpg-to-png"
     /\ parseImageRequest(incoming.body).ok
     /\ examined.processingResult \in {NoOutcome, Resolves(TRUE, "data", "full")})
      => /\ examined.http.status = 200
         /\ examined.http.jsonBody["success"] = "true"
         /\ SubSeq(examined.http.jsonBody["image"], 1, 22)
                = "data:image/png;base64,"
         /\ examined.http.jsonBody["metadata.format"] = "png"

----------------------------------------------------------------------------
(* The map of the limiter over time.                                       *)

\* C24: the map has no eviction: an IP that has a record has one in every
\* later state, and the set of keys never shrinks, resets of expired
\* windows included
C24_NoEviction ==
    [][DOMAIN ipLimits \subseteq DOMAIN ipLimits']_vars

\* one IP's expired window has just been reset while another IP, which has
\* not called since the day before, still has its record
C24_Witness ==
    \E ip \in IPs, other \in IPs :
        /\ ip # other
        /\ hist[ip].prevOver
        /\ hist[ip].calls = 1
        /\ hist[ip].start = now
        /\ HasRecord(ipLimits, ip)
        /\ HasRecord(ipLimits, other)
        /\ now - ipLimits[other].lastReset >= DAY_IN_MS

----------------------------------------------------------------------------
(* The status route and the quota.                                         *)

\* in this step the window of ip goes on
SameWindow(ip) == hist'[ip].start = hist[ip].start

\* in this step a conversion request of ip called checkRateLimit
ConversionCalled(ip) ==
    /\ hist'[ip] # hist[ip]
    /\ hist'[ip].status = IF SameWindow(ip) THEN hist[ip].status ELSE 0

\* the calls made so far in the window that the step's call falls in, when
\* all of them were made by rate-limit-status
StatusCallsBefore(ip) == IF SameWindow(ip) THEN hist[ip].status ELSE 0

\* C25: a status call consumes quota like a conversion request: after k
\* status calls and no conversion in a window, the next conversion request
\* is allowed with remaining 200 - (k + 1) when k < 200, and is rejected
\* with 429 when k >= 200
C25_StatusConsumes ==
    [][\A ip \in IPs :
         (/\ ConversionCalled(ip)
          /\ SameWindow(ip) => hist[ip].calls = hist[ip].status)
           => LET k == StatusCallsBefore(ip) IN
              IF k < REQUESTS_PER_DAY
              THEN /\ hist'[ip].result.allowed
                   /\ hist'[ip].result.remaining = REQUESTS_PER_DAY - (k + 1)
              ELSE /\ ~hist'[ip].result.allowed
                   /\ response'.handler = "image"
                   /\ response'.ip = ip
                   /\ response'.http.status = 429]_vars

\* a conversion request has been rejected with 429 in a window in which
\* nothing but 200 status calls came before it
C25_Witness ==
    /\ response.handler = "image"
    /\ response.http.status = 429
    /\ hist[response.ip].status = REQUESTS_PER_DAY
    /\ hist[response.ip].calls = REQUESTS_PER_DAY + 1

----------------------------------------------------------------------------
(* Quota and failing requests.                                             *)

\* in this step the image handler returns a failure to a request that the
\* limiter had allowed
FailedAfterAllowed ==
    /\ response = NoResponse
    /\ response'.handler = "image"
    /\ response'.rl.allowed
    /\ response'.http.status # 200

\* C26: quota is consumed at the limiter's check and never given back: when
\* an allowed request ends with a parser error, 400, or 500, the map stays
\* as it is, and the record's count still counts the request among the calls
\* allowed in the window
C26_NoRefund ==
    [][FailedAfterAllowed
         => /\ ipLimits' = ipLimits
            /\ HasRecord(ipLimits', response'.ip)
            /\ ipLimits'[response'.ip].lastReset = hist'[response'.ip].start
                 => ipLimits'[response'.ip].count = hist'[response'.ip].allowed]_vars

\* the request that took the last unit of the quota has failed, and the
\* record stands at 200
C26_Witness ==
    /\ response.handler = "image"
    /\ response.rl.allowed
    /\ response.rl.remaining = 0
    /\ response.http.status \in {400, 500}
    /\ HasRecord(ipLimits, response.ip)
    /\ ipLimits[response.ip].count = REQUESTS_PER_DAY

----------------------------------------------------------------------------
(* Rejections.                                                             *)

\* in this step ip called checkRateLimit and was rejected
RejectedCall(ip) ==
    /\ hist'[ip] # hist[ip]
    /\ ~hist'[ip].result.allowed

\* C27: a rejected call leaves the map as it is, neither count nor
\* lastReset of the IP changes, and every rejection in a window reports the
\* same resetTime: the window's start plus 24h
C27_RejectionChangesNothing ==
    [][\A ip \in IPs :
         RejectedCall(ip)
           => /\ ipLimits' = ipLimits
              /\ hist'[ip].start = hist[ip].start
              /\ hist'[ip].result.resetTime = hist[ip].start + DAY_IN_MS
              /\ hist'[ip].result.resetTime
                    = ipLimits'[ip].lastReset + DAY_IN_MS]_vars

\* an IP has been rejected for the second time in its window, later than
\* the window's start, and its record is that of the first rejection
C27_Witness ==
    \E ip \in IPs :
        /\ hist[ip].calls = REQUESTS_PER_DAY + 2
        /\ ~hist[ip].result.allowed
        /\ now > hist[ip].start
        /\ hist[ip].result.resetTime = hist[ip].start + DAY_IN_MS
        /\ HasRecord(ipLimits, ip)
        /\ ipLimits[ip] = [count |-> REQUESTS_PER_DAY,
                           lastReset |-> hist[ip].start]

----------------------------------------------------------------------------
(* The records of different keys.                                          *)

\* the map with the record of ip alone
Alone(limits, ip) == [k \in DOMAIN limits \cap {ip} |-> limits[k]]

\* in this step ip called checkRateLimit
Called(ip) == hist'[ip] # hist[ip]

\* C28: records are isolated per key: a call for ip writes the record of ip
\* only, and its answer and its new record are those of the same call made
\* on a map that holds nothing but the record of ip, so they do not depend
\* on the calls of any other key
C28_PerKeyIsolation ==
    [][\A ip \in IPs :
         Called(ip)
           => /\ \A other \in IPs \ {ip} :
                   /\ HasRecord(ipLimits', other) <=> HasRecord(ipLimits, other)
                   /\ HasRecord(ipLimits, other)
                        => ipLimits'[other] = ipLimits[other]
              /\ hist'[ip].result
                   = checkRateLimit(Alone(ipLimits, ip), ip, now).result
              /\ ipLimits'[ip]
                   = checkRateLimit(Alone(ipLimits, ip), ip, now).limits[ip]]_vars

\* one key is rejected, its record at 200, while the other key, with a
\* record of its own, is allowed and counted from its own calls
C28_Witness ==
    \E ip \in IPs, other \in IPs :
        /\ ip # other
        /\ HasRecord(ipLimits, ip)
        /\ HasRecord(ipLimits, other)
        /\ ~hist[ip].result.allowed
        /\ ipLimits[ip].count = REQUESTS_PER_DAY
        /\ hist[other].result.allowed
        /\ hist[other].calls > 1
        /\ hist[other].result.remaining = REQUESTS_PER_DAY - hist[other].calls

----------------------------------------------------------------------------
(* Parser and registry, in this order.                                     *)

ParserCodes ==
    {"INVALID_CONTENT_TYPE", "MISSING_BOUNDARY", "NO_FILE_FOUND", "PARSING_ERROR"}

UnsupportedCodes == {"UNSUPPORTED_CONVERSION", "UNSUPPORTED_DOCUMENT_CONVERSION"}

\* the code in the body of the response, "" when it has none
CodeOf(http) ==
    IF "code" \in DOMAIN http.jsonBody THEN http.jsonBody["code"] ELSE ""

\* the response of a dispatch handler that got as far as its parser
Dispatched ==
    /\ response.handler \in {"image", "document"}
    /\ "parser" \in response.invoked

\* C29: the dispatch handlers parse the request before they consult the
\* registry: a request whose body fails parsing is answered with the
\* parser's error code, whatever its conversionType, and the registry is not
\* consulted; the code for an unsupported conversion is returned only when
\* parsing succeeded
C29_ParserBeforeRegistry ==
    Dispatched
      => /\ ~response.parsed
              => /\ CodeOf(response.http) \in ParserCodes
                 /\ "registry" \notin response.invoked
         /\ CodeOf(response.http) \in UnsupportedCodes
              => /\ response.parsed
                 /\ "registry" \in response.invoked

\* a request to the unregistered bmp-to-avif whose body holds no file has
\* been answered NO_FILE_FOUND
C29_Witness ==
    /\ Dispatched
    /\ response.conversionType = "bmp-to-avif"
    /\ ~response.parsed
    /\ response.http.status = 400
    /\ response.http.jsonBody["code"] = "NO_FILE_FOUND"

====
